---- MODULE Spec2Model ----
(***************************************************************************)
(* Model of pdf-csv (src/main.go): a pool of worker goroutines reads PDF   *)
(* files from a job channel, parses each text into an Invoice, deposits it *)
(* in a result channel; main joins the pool, collects, sorts by Fatura and *)
(* writes the CSV.                                                         *)
(*                                                                         *)
(* Strings are sequences of one-character strings, so that Split,          *)
(* TrimSpace, Atoi, the byte-wise "<" and the removal of "." are computed  *)
(* character by character as the Go code computes them.                    *)
(***************************************************************************)
EXTENDS Integers, Sequences, FiniteSets, TLC

VARIABLES
    pc,             \* main goroutine's position (or how the process ended)
    NumWorkers,     \* cfg.NumWorkers (flag -workers)
    files,          \* result of filepath.Glob: the handles 1..J
    regexCfg,       \* the RegexConfig (the zero value before the load)
    i,              \* spawn loop counter of main
    sent,           \* number of files already sent on jobs
    jobs,           \* buffered channel jobs (FIFO of handles)
    jobsClosed,
    results,        \* buffered channel results (FIFO of Invoice)
    resultsClosed,
    wg,             \* sync.WaitGroup counter
    totalProcessed, \* atomic counter
    totalErrors,    \* atomic counter
    wpc,            \* per worker goroutine: position
    wjob,           \* per worker goroutine: the handle it holds (0: none)
    winv,           \* per worker goroutine: the Invoice it is about to send
    invoices,       \* main's slice of collected invoices
    sinkArgs,       \* the argument of every call of WriteInvoicesToCSV
    csvRows,        \* rows of the CSV file written by a successful call
    summary,        \* the counters as read by the final log line
    content,        \* history: what readPdf returned for each handle
    claimedBy,      \* history: the workers that received each handle
    deposited,      \* history: handles whose Invoice was sent, in send order
    hIn,            \* harness: input slice of a stand-alone sort
    hOut,           \* harness: the slice after sort.Slice
    hPc             \* harness: position

vars == <<pc, NumWorkers, files, regexCfg, i, sent, jobs, jobsClosed, results,
          resultsClosed, wg, totalProcessed, totalErrors, wpc, wjob, winv,
          invoices, sinkArgs, csvRows, summary, content, claimedBy, deposited,
          hIn, hOut, hPc>>

\* ---------------------------------------------------------------- bounds
MaxJobs == 2
MaxWorkers == 2
MaxSortLen == 3

\* ---------------------------------------------------------------- strings
\* The characters the model uses, in increasing byte order.
Alphabet ==
    <<" ", "+", ",", "-", ".", "/",
      "0", "1", "2", "3", "4", "5", "6", "7", "8", "9",
      "A", "B", "C", "F", "T", "X", "Y", "Z", "a", "b", "c", "x">>

Ord(c) == CHOOSE k \in 1..Len(Alphabet) : Alphabet[k] = c

IsDigit(c) == Ord(c) >= Ord("0") /\ Ord(c) <= Ord("9")

\* Go's s < t on strings: byte-wise lexicographic.
StrLess(s, t) ==
    \E k \in 1..Len(t) :
        /\ k <= Len(s) + 1
        /\ \A m \in 1..(k - 1) : s[m] = t[m]
        /\ (k = Len(s) + 1 \/ Ord(s[k]) < Ord(t[k]))

RECURSIVE SplitFrom(_, _, _)
SplitFrom(s, sep, cur) ==
    IF s = <<>> THEN <<cur>>
    ELSE IF Head(s) = sep THEN <<cur>> \o SplitFrom(Tail(s), sep, <<>>)
    ELSE SplitFrom(Tail(s), sep, Append(cur, Head(s)))

\* strings.Split(s, sep) for a one-character sep.
Split(s, sep) == SplitFrom(s, sep, <<>>)

RECURSIVE TrimLeft(_)
TrimLeft(s) == IF s # <<>> /\ Head(s) = " " THEN TrimLeft(Tail(s)) ELSE s

RECURSIVE TrimRight(_)
TrimRight(s) ==
    IF s # <<>> /\ s[Len(s)] = " " THEN TrimRight(SubSeq(s, 1, Len(s) - 1)) ELSE s

\* strings.TrimSpace (the only white space of the alphabet is " ").
TrimSpace(s) == TrimRight(TrimLeft(s))

RECURSIVE DigitsValue(_, _)
DigitsValue(s, acc) ==
    IF s = <<>> THEN acc
    ELSE DigitsValue(Tail(s), acc * 10 + (Ord(Head(s)) - Ord("0")))

\* strconv.Atoi: an optional sign and then decimal digits only; anything else
\* is an error and the value is 0. (The strings of the model are short, so the
\* out-of-range error of Atoi does not arise.)
Atoi(s) ==
    LET signed == s # <<>> /\ Head(s) \in {"+", "-"}
        body   == IF signed THEN Tail(s) ELSE s
    IN  IF body = <<>> \/ \E k \in 1..Len(body) : ~IsDigit(body[k])
        THEN [err |-> TRUE, n |-> 0]
        ELSE [err |-> FALSE,
              n   |-> IF signed /\ Head(s) = "-"
                      THEN 0 - DigitsValue(body, 0)
                      ELSE DigitsValue(body, 0)]

\* ---------------------------------------------------------------- parseInvoice
\* regexp.ReplaceAllString(reValorCleanerDot, s, ""): every "." removed.
\* Mutant: a cleaner whose class also holds the comma.
ReplaceAllDotsAndCommas(s) == SelectSeq(s, LAMBDA c : c \notin {".", ","})

ReplaceAllDots(s) == SelectSeq(s, LAMBDA c : c # ".")

EmptyInvoice ==
    [Fatura |-> <<>>, ClienteMatricula |-> <<>>, DataInicio |-> <<>>,
     Valor |-> <<>>, PrazoMeses |-> <<>>]

\* A pattern of the template is modelled by whether it compiles and by the rule
\* whose matches it selects; a text is modelled by the result of
\* FindStringSubmatch of each rule on it (<<>>: no match; otherwise the whole
\* match followed by one string per capture group, "" for a group that did
\* not participate).
Pattern(rule, valid) == [rule |-> rule, valid |-> valid]

\* var config RegexConfig: five empty patterns. An empty pattern compiles, has
\* no capture group and matches every text with an empty whole match.
ZeroConfig ==
    [Fatura |-> Pattern("empty", TRUE),
     ClienteMatricula |-> Pattern("empty", TRUE),
     DataInicio |-> Pattern("empty", TRUE),
     Valor |-> Pattern("empty", TRUE),
     PrazoMeses |-> Pattern("empty", TRUE)]

ValidConfig ==
    [Fatura |-> Pattern("fatura", TRUE),
     ClienteMatricula |-> Pattern("cliente", TRUE),
     DataInicio |-> Pattern("data", TRUE),
     Valor |-> Pattern("valor", TRUE),
     PrazoMeses |-> Pattern("prazo", TRUE)]

\* A template whose last pattern does not compile.
BadPatternConfig == [ValidConfig EXCEPT !.PrazoMeses = Pattern("prazo", FALSE)]

RegexConfigs == {ValidConfig, BadPatternConfig}

\* regexp.MustCompile panics on a pattern that does not compile.
MustCompilePanics(cfg) ==
    \/ ~cfg.Fatura.valid
    \/ ~cfg.ClienteMatricula.valid
    \/ ~cfg.DataInicio.valid
    \/ ~cfg.Valor.valid
    \/ ~cfg.PrazoMeses.valid

FindStringSubmatch(re, text) == text[re.rule]

\* Mutant: without the last branch, a registration code alone gives nothing.
ClienteMatriculaWithoutLastBranch(clienteMatch, matriculaMatch) ==
    IF Len(clienteMatch) > 1 /\ Len(matriculaMatch) > 1
    THEN clienteMatch[2] \o <<"/">> \o matriculaMatch[2]
    ELSE IF Len(clienteMatch) > 1 THEN clienteMatch[2]
    ELSE <<>>

\* invoice.ClienteMatricula from the two submatch results.
ClienteMatriculaOf(clienteMatch, matriculaMatch) ==
    IF Len(clienteMatch) > 1 /\ Len(matriculaMatch) > 1
    THEN clienteMatch[2] \o <<"/">> \o matriculaMatch[2]
    ELSE IF Len(clienteMatch) > 1 THEN clienteMatch[2]
    ELSE IF Len(matriculaMatch) > 1 THEN matriculaMatch[2]
    ELSE <<>>

\* invoice.DataInicio from the submatch result.
DataInicioOf(match) ==
    IF Len(match) > 3
    THEN match[4] \o <<"-">> \o match[3] \o <<"-">> \o match[2]
    ELSE <<>>

\* invoice.Valor from the submatch result.
ValorOf(match) == IF Len(match) > 1 THEN ReplaceAllDots(match[2]) ELSE <<>>

parseInvoice(text, cfg) ==
    LET mFatura    == FindStringSubmatch(cfg.Fatura, text)
        mCliente   == FindStringSubmatch(cfg.ClienteMatricula, text)
        mMatricula == text["matricula"]
        mData      == FindStringSubmatch(cfg.DataInicio, text)
        mValor     == FindStringSubmatch(cfg.Valor, text)
        mPrazo     == FindStringSubmatch(cfg.PrazoMeses, text)
    IN  [Fatura |-> IF Len(mFatura) > 1 THEN mFatura[2] ELSE <<>>,
         ClienteMatricula |-> ClienteMatriculaOf(mCliente, mMatricula),
         DataInicio |-> DataInicioOf(mData),
         Valor |-> ValorOf(mValor),
         PrazoMeses |-> IF Len(mPrazo) > 1 THEN mPrazo[2] ELSE <<>>]

\* ---------------------------------------------------------------- sort
\* Mutant: the errors of Atoi are ignored, so a segment that does not parse
\* counts as 0.
lessIgnoringAtoiErrors(a, b) ==
    LET partsI == Split(a.Fatura, "/")
        partsJ == Split(b.Fatura, "/")
    IN  IF Len(partsI) < 2 \/ Len(partsJ) < 2
        THEN StrLess(a.Fatura, b.Fatura)
        ELSE Atoi(TrimSpace(partsI[2])).n < Atoi(TrimSpace(partsJ[2])).n

\* The less function handed to sort.Slice, on two invoices.
less(a, b) ==
    LET faturaI == a.Fatura
        faturaJ == b.Fatura
        partsI  == Split(faturaI, "/")
        partsJ  == Split(faturaJ, "/")
    IN  IF Len(partsI) < 2 \/ Len(partsJ) < 2
        THEN StrLess(faturaI, faturaJ)
        ELSE LET numI == Atoi(TrimSpace(partsI[2]))
                 numJ == Atoi(TrimSpace(partsJ[2]))
             IN  IF numI.err \/ numJ.err
                 THEN StrLess(faturaI, faturaJ)
                 ELSE numI.n < numJ.n

Swap(data, j, k) == [data EXCEPT ![j] = data[k], ![k] = data[j]]

\* The slice after each swap and each pass is bound to its value (d) before
\* the sort goes on with it.
RECURSIVE SiftDown(_, _)
SiftDown(data, j) ==
    IF j > 1 /\ less(data[j], data[j - 1])
    THEN CHOOSE r \in {SiftDown(d, j - 1) : d \in {Swap(data, j, j - 1)}} : TRUE
    ELSE data

RECURSIVE InsertionSort(_, _)
InsertionSort(data, k) ==
    IF k > Len(data) THEN data
    ELSE CHOOSE r \in {InsertionSort(d, k + 1) : d \in {SiftDown(data, k)}} : TRUE

\* sort.Slice(invoices, less). A slice of at most 6 elements is sorted by this
\* insertion sort in every Go release (by the quicksort of the releases before
\* 1.19 and by the pdqsort since); the slices of the model are shorter.
SortSlice(data) == InsertionSort(data, 2)

\* The gap of the ShellSort pass the quicksort of the Go releases before 1.19
\* runs over a slice of 7 to 12 elements ahead of the insertion sort.
ShellGap == 6

RECURSIVE ShellPass(_, _)
ShellPass(data, k) ==
    IF k > Len(data) THEN data
    ELSE IF less(data[k], data[k - ShellGap])
         THEN ShellPass(Swap(data, k, k - ShellGap), k + 1)
         ELSE ShellPass(data, k + 1)

\* What sort.Slice(invoices, less) can leave, by the Go release the program is
\* built with (the README asks for Go 1.16 or higher; sort.Slice is documented
\* as not stable). Up to 12 elements: the insertion sort alone (1.19 and
\* later), or the gap pass followed by it (1.16 to 1.18, above 6 elements).
SortSliceOutcomes(data) ==
    IF Len(data) <= ShellGap
    THEN {SortSlice(data)}
    ELSE {SortSlice(data), SortSlice(ShellPass(data, ShellGap + 1))}

\* ---------------------------------------------------------------- inputs
\* The texts readPdf can return, each given by the submatches the rules of
\* the template find in it.
TextNoMatch ==
    [empty |-> << <<>> >>, fatura |-> <<>>, cliente |-> <<>>, matricula |-> <<>>,
     data |-> <<>>, valor |-> <<>>, prazo |-> <<>>]

TextA ==
    [empty |-> << <<>> >>,
     fatura |-> << <<"F", "T", " ", "A", "/", "9">>, <<"A", "/", "9">> >>,
     cliente |-> << <<"c", " ", "A", "B">>, <<"A", "B">> >>,
     matricula |-> << <<"a", " ", "A", "A", "-", "0", "0", "-", "B", "B">>,
                      <<"A", "A", "-", "0", "0", "-", "B", "B">> >>,
     data |-> << <<"2", "6", "/", "1", "0", "/", "2", "0", "2", "3">>,
                 <<"2", "6">>, <<"1", "0">>, <<"2", "0", "2", "3">> >>,
     valor |-> << <<"1", ".", "2", "3", "4", ",", "5", "6">>,
                  <<"1", ".", "2", "3", "4", ",", "5", "6">> >>,
     prazo |-> << <<"2", "4", " ", "x">>, <<"2", "4">> >>]

TextB ==
    [empty |-> << <<>> >>,
     fatura |-> << <<"F", "T", " ", "B", "/", "9">>, <<"B", "/", "9">> >>,
     cliente |-> <<>>, matricula |-> <<>>, data |-> <<>>,
     valor |-> << <<"7">>, <<"7">> >>,
     prazo |-> <<>>]

Texts == {TextNoMatch, TextA, TextB}

\* What readPdf does with a handle: it returns a text, returns an error, or
\* never returns.
Unread == [kind |-> "unread", text |-> TextNoMatch]
ReadError == [kind |-> "error", text |-> TextNoMatch]
ReadHang == [kind |-> "hang", text |-> TextNoMatch]
ReadText(t) == [kind |-> "text", text |-> t]

\* The texts a stand-alone parseInvoice is run on: every combination of what
\* the rules can find. "data" is a DataInicio pattern with three capture
\* groups (its second group may not participate in a match), "data2" one with
\* two groups; the capture of "cliente" may be empty.
W == <<"x">>

FaturaMatches == {<<>>, <<W, <<"A", "/", "9">> >>}

ClienteMatches == {<<>>, <<W, <<"A", "B">> >>, <<W, <<>> >>}

MatriculaMatches == {<<>>, <<W, <<"A", "A", "-", "0", "0", "-", "B", "B">> >>}

DataMatches ==
    {<<>>,
     <<W, <<"2", "6">>, <<"1", "0">>, <<"2", "0", "2", "3">> >>,
     <<W, <<"2", "6">>, <<>>, <<"2", "0", "2", "3">> >>}

Data2Matches == {<<>>, <<W, <<"2", "6">>, <<"1", "0">> >>}

ValorMatches ==
    {<<>>,
     <<W, <<"1", ".", "2", "3", "4", ",", "5", "6">> >>,
     <<W, <<".", "1", ".", ".", "2", ",", "3", ".">> >>,
     <<W, <<"7">> >>}

PrazoMatches == {<<>>, <<W, <<"2", "4">> >>}

ParseTexts ==
    {[empty |-> << <<>> >>, fatura |-> f, cliente |-> c, matricula |-> m,
      data |-> d, data2 |-> e, valor |-> v, prazo |-> z] :
        f \in FaturaMatches, c \in ClienteMatches, m \in MatriculaMatches,
        d \in DataMatches, e \in Data2Matches, v \in ValorMatches,
        z \in PrazoMatches}

\* A template whose DataInicio pattern has two capture groups only.
TwoGroupDateConfig == [ValidConfig EXCEPT !.DataInicio = Pattern("data2", TRUE)]

ParseConfigs == {ValidConfig, TwoGroupDateConfig, ZeroConfig}

\* Invoices a stand-alone sort is run on: Fatura with a numeric second segment,
\* with none, with one that does not parse, and with white space around it.
Inv(fatura) == [EmptyInvoice EXCEPT !.Fatura = fatura]

I1001 == Inv(<<"F", "T", " ", "2", "0", "2", "3", "/", "1", "0", "0", "1">>)
I12345 == Inv(<<"F", "T", " ", "2", "0", "2", "3", "/", "1", "2", "3", "4", "5">>)
IX == Inv(<<"X">>)
IYabc == Inv(<<"Y", "/", "a", "b", "c">>)
IA9 == Inv(<<"A", "/", "9">>)
IBx == Inv(<<"B", "/", "x">>)
IC1 == Inv(<<"C", "/", "1">>)
IA10 == Inv(<<"A", "/", " ", "1", "0", " ">>)
IZ5 == Inv(<<"Z", "/", "5">>)

IX7 == [Inv(<<"X">>) EXCEPT !.Valor = <<"7">>]

\* Invoices of a longer collection: two of them share their Fatura.
StableUniverse == {IX, IX7, IA9}

MaxStableLen == 7

StableInputs == UNION {[1..k -> StableUniverse] : k \in (ShellGap + 1)..MaxStableLen}

SortUniverse == {I1001, I12345, IX, IYabc, IA9, IBx, IC1, IA10, IZ5}

SeqsUpTo(S, n) == UNION {[1..k -> S] : k \in 0..n}

Header == <<"Fatura", "Cliente/Matricula", "Data Inicio", "Valor", "Prazo Meses">>

Row(inv) ==
    <<inv.Fatura, inv.ClienteMatricula, inv.DataInicio, inv.Valor, inv.PrazoMeses>>

\* ---------------------------------------------------------------- state
Workers == 1..Len(wpc)

Handles == 1..Len(files)

Running == pc \notin {"done", "fatal_config", "fatal_write", "panic"}

\* The state when main starts: the flags are parsed and the files are the
\* distinct paths filepath.Glob returns (its only error is a malformed pattern,
\* which the constant "pdfs/*.pdf" is not).
Init ==
    /\ pc = "load"
    /\ NumWorkers \in (0 - 1)..MaxWorkers
    /\ files \in {[h \in 1..j |-> h] : j \in 0..MaxJobs}
    /\ regexCfg = ZeroConfig
    /\ i = 0
    /\ sent = 0
    /\ jobs = <<>>
    /\ jobsClosed = FALSE
    /\ results = <<>>
    /\ resultsClosed = FALSE
    /\ wg = 0
    /\ totalProcessed = 0
    /\ totalErrors = 0
    /\ wpc = <<>>
    /\ wjob = <<>>
    /\ winv = <<>>
    /\ invoices = <<>>
    /\ sinkArgs = <<>>
    /\ csvRows = <<>>
    /\ summary = <<>>
    /\ content = [h \in Handles |-> Unread]
    /\ claimedBy = [h \in Handles |-> <<>>]
    /\ deposited = <<>>
    /\ hIn = <<>>
    /\ hOut = <<>>
    /\ hPc = "idle"

\* ---------------------------------------------------------------- main
\* loadRegexConfig returns the template: it unmarshals the JSON and compiles
\* nothing.
MainLoad ==
    /\ pc = "load"
    /\ \E cfg \in RegexConfigs : regexCfg' = cfg
    /\ pc' = "spawn"
    /\ UNCHANGED <<NumWorkers, files, i, sent, jobs, jobsClosed, results,
                   resultsClosed, wg, totalProcessed, totalErrors, wpc, wjob,
                   winv, invoices, sinkArgs, csvRows, summary, content,
                   claimedBy, deposited, hIn, hOut, hPc>>

\* The template cannot be read or is not JSON: log.Fatalf.
MainLoadFails ==
    /\ pc = "load"
    /\ pc' = "fatal_config"
    /\ UNCHANGED <<NumWorkers, files, regexCfg, i, sent, jobs, jobsClosed,
                   results, resultsClosed, wg, totalProcessed, totalErrors, wpc,
                   wjob, winv, invoices, sinkArgs, csvRows, summary, content,
                   claimedBy, deposited, hIn, hOut, hPc>>

\* Mutant: the loop starts one worker at most.
SpawnOneWorkerOnly == i < NumWorkers /\ i < 1

\* Mutant: the loop bound is inclusive.
SpawnOneMore == i <= NumWorkers

SpawnMore == i < NumWorkers

\* for i := 0; i < cfg.NumWorkers; i++ { wg.Add(1); go worker(...) }
\* Mutant: the counter is set once for the pool, not raised per worker.
WgAddOnce(n) == 1

\* wg.Add(1)
WgAdd(n) == n + 1

MainSpawn ==
    /\ pc = "spawn"
    /\ SpawnMore
    /\ wg' = WgAdd(wg)
    /\ wpc' = Append(wpc, "recv")
    /\ wjob' = Append(wjob, 0)
    /\ winv' = Append(winv, EmptyInvoice)
    /\ i' = i + 1
    /\ UNCHANGED <<pc, NumWorkers, files, regexCfg, sent, jobs, jobsClosed,
                   results, resultsClosed, totalProcessed, totalErrors,
                   invoices, sinkArgs, csvRows, summary, content, claimedBy,
                   deposited, hIn, hOut, hPc>>

MainSpawnDone ==
    /\ pc = "spawn"
    /\ ~SpawnMore
    /\ pc' = "enqueue"
    /\ UNCHANGED <<NumWorkers, files, regexCfg, i, sent, jobs, jobsClosed,
                   results, resultsClosed, wg, totalProcessed, totalErrors, wpc,
                   wjob, winv, invoices, sinkArgs, csvRows, summary, content,
                   claimedBy, deposited, hIn, hOut, hPc>>

\* make(chan string, len(files))
JobsCap == Len(files)

\* for _, file := range files { jobs <- file }; jobs has capacity len(files).
MainEnqueue ==
    /\ pc = "enqueue"
    /\ sent < Len(files)
    /\ Len(jobs) < JobsCap
    /\ jobs' = Append(jobs, files[sent + 1])
    /\ sent' = sent + 1
    /\ UNCHANGED <<pc, NumWorkers, files, regexCfg, i, jobsClosed, results,
                   resultsClosed, wg, totalProcessed, totalErrors, wpc, wjob,
                   winv, invoices, sinkArgs, csvRows, summary, content,
                   claimedBy, deposited, hIn, hOut, hPc>>

\* close(jobs)
MainCloseJobs ==
    /\ pc = "enqueue"
    /\ sent = Len(files)
    /\ jobsClosed' = TRUE
    /\ pc' = "wait"
    /\ UNCHANGED <<NumWorkers, files, regexCfg, i, sent, jobs, results,
                   resultsClosed, wg, totalProcessed, totalErrors, wpc, wjob,
                   winv, invoices, sinkArgs, csvRows, summary, content,
                   claimedBy, deposited, hIn, hOut, hPc>>

\* Mutant: main does not wait for the workers.
WaitReturnsEarly == TRUE

WaitReturns == wg = 0

\* wg.Wait()
MainWait ==
    /\ pc = "wait"
    /\ WaitReturns
    /\ pc' = "close_results"
    /\ UNCHANGED <<NumWorkers, files, regexCfg, i, sent, jobs, jobsClosed,
                   results, resultsClosed, wg, totalProcessed, totalErrors, wpc,
                   wjob, winv, invoices, sinkArgs, csvRows, summary, content,
                   claimedBy, deposited, hIn, hOut, hPc>>

\* close(results)
MainCloseResults ==
    /\ pc = "close_results"
    /\ resultsClosed' = TRUE
    /\ pc' = "collect"
    /\ UNCHANGED <<NumWorkers, files, regexCfg, i, sent, jobs, jobsClosed,
                   results, wg, totalProcessed, totalErrors, wpc, wjob, winv,
                   invoices, sinkArgs, csvRows, summary, content, claimedBy,
                   deposited, hIn, hOut, hPc>>

\* for invoice := range results { invoices = append(invoices, invoice) }
MainCollect ==
    /\ pc = "collect"
    /\ results # <<>>
    /\ invoices' = Append(invoices, Head(results))
    /\ results' = Tail(results)
    /\ UNCHANGED <<pc, NumWorkers, files, regexCfg, i, sent, jobs, jobsClosed,
                   resultsClosed, wg, totalProcessed, totalErrors, wpc, wjob,
                   winv, sinkArgs, csvRows, summary, content, claimedBy,
                   deposited, hIn, hOut, hPc>>

MainCollectDone ==
    /\ pc = "collect"
    /\ results = <<>>
    /\ resultsClosed
    /\ pc' = "sort"
    /\ UNCHANGED <<NumWorkers, files, regexCfg, i, sent, jobs, jobsClosed,
                   results, resultsClosed, wg, totalProcessed, totalErrors, wpc,
                   wjob, winv, invoices, sinkArgs, csvRows, summary, content,
                   claimedBy, deposited, hIn, hOut, hPc>>

\* sort.Slice(invoices, less)
MainSort ==
    /\ pc = "sort"
    /\ invoices' \in SortSliceOutcomes(invoices)
    /\ pc' = "write"
    /\ UNCHANGED <<NumWorkers, files, regexCfg, i, sent, jobs, jobsClosed,
                   results, resultsClosed, wg, totalProcessed, totalErrors, wpc,
                   wjob, winv, sinkArgs, csvRows, summary, content, claimedBy,
                   deposited, hIn, hOut, hPc>>

\* WriteInvoicesToCSV succeeds: the header and one row per invoice.
MainWrite ==
    /\ pc = "write"
    /\ sinkArgs' = Append(sinkArgs, invoices)
    /\ csvRows' = <<Header>> \o [k \in 1..Len(invoices) |-> Row(invoices[k])]
    /\ pc' = "stats"
    /\ UNCHANGED <<NumWorkers, files, regexCfg, i, sent, jobs, jobsClosed,
                   results, resultsClosed, wg, totalProcessed, totalErrors, wpc,
                   wjob, winv, invoices, summary, content, claimedBy,
                   deposited, hIn, hOut, hPc>>

\* WriteInvoicesToCSV returns an error: log.Fatalf. (What the file then holds
\* is not modelled.)
MainWriteFails ==
    /\ pc = "write"
    /\ sinkArgs' = Append(sinkArgs, invoices)
    /\ pc' = "fatal_write"
    /\ UNCHANGED <<NumWorkers, files, regexCfg, i, sent, jobs, jobsClosed,
                   results, resultsClosed, wg, totalProcessed, totalErrors, wpc,
                   wjob, winv, invoices, csvRows, summary, content, claimedBy,
                   deposited, hIn, hOut, hPc>>

\* The final log line loads both counters; main returns.
MainStats ==
    /\ pc = "stats"
    /\ summary' = <<[processed |-> totalProcessed, errors |-> totalErrors]>>
    /\ pc' = "done"
    /\ UNCHANGED <<NumWorkers, files, regexCfg, i, sent, jobs, jobsClosed,
                   results, resultsClosed, wg, totalProcessed, totalErrors, wpc,
                   wjob, winv, invoices, sinkArgs, csvRows, content, claimedBy,
                   deposited, hIn, hOut, hPc>>

\* ---------------------------------------------------------------- worker
\* Mutant: a receive that leaves the handle in the buffer.
RecvJobsPeek(w) == jobs

\* for job := range jobs: a receive takes the head of the buffer.
RecvJobs(w) == Tail(jobs)

WorkerRecv(w) ==
    /\ Running
    /\ w \in Workers
    /\ wpc[w] = "recv"
    /\ jobs # <<>>
    /\ wjob' = [wjob EXCEPT ![w] = Head(jobs)]
    /\ jobs' = RecvJobs(w)
    /\ claimedBy' = [claimedBy EXCEPT ![Head(jobs)] = Append(@, w)]
    /\ wpc' = [wpc EXCEPT ![w] = "read"]
    /\ UNCHANGED <<pc, NumWorkers, files, regexCfg, i, sent, jobsClosed,
                   results, resultsClosed, wg, totalProcessed, totalErrors,
                   winv, invoices, sinkArgs, csvRows, summary, content,
                   deposited, hIn, hOut, hPc>>

\* jobs is closed and empty: the range loop ends and the deferred wg.Done runs.
WorkerExit(w) ==
    /\ Running
    /\ w \in Workers
    /\ wpc[w] = "recv"
    /\ jobs = <<>>
    /\ jobsClosed
    /\ wg' = wg - 1
    /\ wpc' = [wpc EXCEPT ![w] = "exited"]
    /\ UNCHANGED <<pc, NumWorkers, files, regexCfg, i, sent, jobs, jobsClosed,
                   results, resultsClosed, totalProcessed, totalErrors, wjob,
                   winv, invoices, sinkArgs, csvRows, summary, content,
                   claimedBy, deposited, hIn, hOut, hPc>>

\* Mutant: no continue after the error, the worker falls through to the send.
AfterReadErrorFallsThrough == "send"

\* Where the worker goes after readPdf returned an error.
AfterReadError == "adderr"

\* readPdf returns an error: it is logged.
WorkerReadFails(w) ==
    /\ Running
    /\ w \in Workers
    /\ wpc[w] = "read"
    /\ content' = [content EXCEPT ![wjob[w]] = ReadError]
    /\ wpc' = [wpc EXCEPT ![w] = AfterReadError]
    /\ UNCHANGED <<pc, NumWorkers, files, regexCfg, i, sent, jobs, jobsClosed,
                   results, resultsClosed, wg, totalProcessed, totalErrors,
                   wjob, winv, invoices, sinkArgs, csvRows, summary, claimedBy,
                   deposited, hIn, hOut, hPc>>

\* readPdf never returns: the worker stays in the call.
WorkerReadHangs(w) ==
    /\ Running
    /\ w \in Workers
    /\ wpc[w] = "read"
    /\ content' = [content EXCEPT ![wjob[w]] = ReadHang]
    /\ wpc' = [wpc EXCEPT ![w] = "hung"]
    /\ UNCHANGED <<pc, NumWorkers, files, regexCfg, i, sent, jobs, jobsClosed,
                   results, resultsClosed, wg, totalProcessed, totalErrors,
                   wjob, winv, invoices, sinkArgs, csvRows, summary, claimedBy,
                   deposited, hIn, hOut, hPc>>

\* readPdf returns a text and parseInvoice turns it into an Invoice.
WorkerParse(w) ==
    /\ Running
    /\ w \in Workers
    /\ wpc[w] = "read"
    /\ ~MustCompilePanics(regexCfg)
    /\ \E t \in Texts :
        /\ content' = [content EXCEPT ![wjob[w]] = ReadText(t)]
        /\ winv' = [winv EXCEPT ![w] = parseInvoice(t, regexCfg)]
    /\ wpc' = [wpc EXCEPT ![w] = "send"]
    /\ UNCHANGED <<pc, NumWorkers, files, regexCfg, i, sent, jobs, jobsClosed,
                   results, resultsClosed, wg, totalProcessed, totalErrors,
                   wjob, invoices, sinkArgs, csvRows, summary, claimedBy,
                   deposited, hIn, hOut, hPc>>

\* readPdf returns a text and a regexp.MustCompile of parseInvoice panics:
\* the panic of a goroutine ends the whole process.
WorkerParsePanics(w) ==
    /\ Running
    /\ w \in Workers
    /\ wpc[w] = "read"
    /\ MustCompilePanics(regexCfg)
    /\ \E t \in Texts : content' = [content EXCEPT ![wjob[w]] = ReadText(t)]
    /\ pc' = "panic"
    /\ UNCHANGED <<NumWorkers, files, regexCfg, i, sent, jobs, jobsClosed,
                   results, resultsClosed, wg, totalProcessed, totalErrors, wpc,
                   wjob, winv, invoices, sinkArgs, csvRows, summary, claimedBy,
                   deposited, hIn, hOut, hPc>>

\* Mutant: the increment of totalErrors is lost.
AddErrorsLost(n) == n

\* atomic.AddUint64(totalErrors, 1); continue
AddErrors(n) == n + 1

WorkerAddError(w) ==
    /\ Running
    /\ w \in Workers
    /\ wpc[w] = "adderr"
    /\ totalErrors' = AddErrors(totalErrors)
    /\ wjob' = [wjob EXCEPT ![w] = 0]
    /\ wpc' = [wpc EXCEPT ![w] = "recv"]
    /\ UNCHANGED <<pc, NumWorkers, files, regexCfg, i, sent, jobs, jobsClosed,
                   results, resultsClosed, wg, totalProcessed, winv, invoices,
                   sinkArgs, csvRows, summary, content, claimedBy, deposited,
                   hIn, hOut, hPc>>

\* Mutant: an invoice without any field is not deposited.
SendResultSkipsEmpty(ch, inv) == IF inv = EmptyInvoice THEN ch ELSE Append(ch, inv)

\* results <- invoice: the invoice is appended to the buffer.
SendResult(ch, inv) == Append(ch, inv)

\* Mutant: results is made one slot short of the number of files.
ResultsCapOneShort == Len(files) - 1

\* make(chan Invoice, len(files))
ResultsCap == Len(files)

\* results <- invoice; results has capacity len(files).
WorkerSend(w) ==
    /\ Running
    /\ w \in Workers
    /\ wpc[w] = "send"
    /\ Len(results) < ResultsCap
    /\ ~resultsClosed
    /\ results' = SendResult(results, winv[w])
    /\ deposited' = Append(deposited, wjob[w])
    /\ wpc' = [wpc EXCEPT ![w] = "addproc"]
    /\ UNCHANGED <<pc, NumWorkers, files, regexCfg, i, sent, jobs, jobsClosed,
                   resultsClosed, wg, totalProcessed, totalErrors, wjob, winv,
                   invoices, sinkArgs, csvRows, summary, content, claimedBy,
                   hIn, hOut, hPc>>

\* Mutant: the increment of totalProcessed is lost.
AddProcessedLost(n) == n

\* atomic.AddUint64(totalProcessed, 1)
AddProcessed(n) == n + 1

WorkerAddProcessed(w) ==
    /\ Running
    /\ w \in Workers
    /\ wpc[w] = "addproc"
    /\ totalProcessed' = AddProcessed(totalProcessed)
    /\ wjob' = [wjob EXCEPT ![w] = 0]
    /\ wpc' = [wpc EXCEPT ![w] = "recv"]
    /\ UNCHANGED <<pc, NumWorkers, files, regexCfg, i, sent, jobs, jobsClosed,
                   results, resultsClosed, wg, totalErrors, winv, invoices,
                   sinkArgs, csvRows, summary, content, claimedBy, deposited,
                   hIn, hOut, hPc>>

\* ---------------------------------------------------------------- pipeline
Worker(w) ==
    \/ WorkerRecv(w)
    \/ WorkerExit(w)
    \/ WorkerReadFails(w)
    \/ WorkerReadHangs(w)
    \/ WorkerParse(w)
    \/ WorkerParsePanics(w)
    \/ WorkerAddError(w)
    \/ WorkerSend(w)
    \/ WorkerAddProcessed(w)

Main ==
    \/ MainLoad
    \/ MainLoadFails
    \/ MainSpawn
    \/ MainSpawnDone
    \/ MainEnqueue
    \/ MainCloseJobs
    \/ MainWait
    \/ MainCloseResults
    \/ MainCollect
    \/ MainCollectDone
    \/ MainSort
    \/ MainWrite
    \/ MainWriteFails
    \/ MainStats

Next == Main \/ \E w \in 1..(MaxWorkers + 1) : Worker(w)

Spec == Init /\ [][Next]_vars

\* The Go scheduler runs every goroutine that can take a step: main and each
\* worker keep moving while one of their steps is possible. A readPdf that
\* never returns is a step the worker took (WorkerReadHangs).
FairSpec ==
    /\ Spec
    /\ WF_vars(Main)
    /\ \A w \in 1..(MaxWorkers + 1) : WF_vars(Worker(w))

\* ---------------------------------------------------------------- sort harness
\* A stand-alone run of the ordering step: the slice is drawn from
\* SortUniverse and sort.Slice is applied to it once.
SortInit ==
    /\ pc = "load"
    /\ NumWorkers = 1
    /\ files = <<>>
    /\ regexCfg = ZeroConfig
    /\ i = 0
    /\ sent = 0
    /\ jobs = <<>>
    /\ jobsClosed = FALSE
    /\ results = <<>>
    /\ resultsClosed = FALSE
    /\ wg = 0
    /\ totalProcessed = 0
    /\ totalErrors = 0
    /\ wpc = <<>>
    /\ wjob = <<>>
    /\ winv = <<>>
    /\ invoices = <<>>
    /\ sinkArgs = <<>>
    /\ csvRows = <<>>
    /\ summary = <<>>
    /\ content = <<>>
    /\ claimedBy = <<>>
    /\ deposited = <<>>
    /\ hIn \in SeqsUpTo(SortUniverse, MaxSortLen)
    /\ hOut = <<>>
    /\ hPc = "call"

SortCall ==
    /\ hPc = "call"
    /\ hOut' \in SortSliceOutcomes(hIn)
    /\ hPc' = "done"
    /\ UNCHANGED <<hIn, pc, NumWorkers, files, regexCfg, i, sent, jobs,
                   jobsClosed, results, resultsClosed, wg, totalProcessed,
                   totalErrors, wpc, wjob, winv, invoices, sinkArgs, csvRows,
                   summary, content, claimedBy, deposited>>

SortNext == SortCall

SortSpec == SortInit /\ [][SortNext]_vars

\* A stand-alone sort of a collection of more than ShellGap invoices.
StableInit ==
    /\ pc = "load"
    /\ NumWorkers = 1
    /\ files = <<>>
    /\ regexCfg = ZeroConfig
    /\ i = 0
    /\ sent = 0
    /\ jobs = <<>>
    /\ jobsClosed = FALSE
    /\ results = <<>>
    /\ resultsClosed = FALSE
    /\ wg = 0
    /\ totalProcessed = 0
    /\ totalErrors = 0
    /\ wpc = <<>>
    /\ wjob = <<>>
    /\ winv = <<>>
    /\ invoices = <<>>
    /\ sinkArgs = <<>>
    /\ csvRows = <<>>
    /\ summary = <<>>
    /\ content = <<>>
    /\ claimedBy = <<>>
    /\ deposited = <<>>
    /\ hIn \in StableInputs
    /\ hOut = <<>>
    /\ hPc = "call"

StableSpec == StableInit /\ [][SortNext]_vars

\* ---------------------------------------------------------------- parse harness
\* The pipeline at rest, as the harnesses leave it.
PipelineIdle ==
    /\ pc = "load"
    /\ NumWorkers = 1
    /\ files = <<>>
    /\ i = 0
    /\ sent = 0
    /\ jobs = <<>>
    /\ jobsClosed = FALSE
    /\ results = <<>>
    /\ resultsClosed = FALSE
    /\ wg = 0
    /\ totalProcessed = 0
    /\ totalErrors = 0
    /\ wpc = <<>>
    /\ wjob = <<>>
    /\ winv = <<>>
    /\ invoices = <<>>
    /\ sinkArgs = <<>>
    /\ csvRows = <<>>
    /\ summary = <<>>
    /\ content = <<>>
    /\ claimedBy = <<>>
    /\ deposited = <<>>

\* A stand-alone run of parseInvoice: the text is drawn from ParseTexts, the
\* template from ParseConfigs, and parseInvoice is applied once.
ParseInit ==
    /\ PipelineIdle
    /\ regexCfg \in ParseConfigs
    /\ hIn \in ParseTexts
    /\ hOut = <<>>
    /\ hPc = "parse"

ParseCall ==
    /\ hPc = "parse"
    /\ hOut' = parseInvoice(hIn, regexCfg)
    /\ hPc' = "parsed"
    /\ UNCHANGED <<hIn, pc, NumWorkers, files, regexCfg, i, sent, jobs,
                   jobsClosed, results, resultsClosed, wg, totalProcessed,
                   totalErrors, wpc, wjob, winv, invoices, sinkArgs, csvRows,
                   summary, content, claimedBy, deposited>>

ParseNext == ParseCall

ParseSpec == ParseInit /\ [][ParseNext]_vars

\* ---------------------------------------------------------------- vocabulary
Range(q) == {q[k] : k \in 1..Len(q)}

\* wg.Wait has returned.
PoolJoined ==
    pc \in {"close_results", "collect", "sort", "write", "stats", "done",
            "fatal_write"}

AllWorkersExited == \A w \in Workers : wpc[w] = "exited"

\* Workers that hold a handle.
Active == {w \in Workers : wpc[w] \in {"read", "adderr", "send", "addproc", "hung"}}

Failed == {h \in Handles : content[h] = ReadError}

Succeeded == {h \in Handles : content[h].kind = "text"}

\* ---------------------------------------------------------------- C1
\* C1: once wg.Wait has returned in a run with at least one worker, the two
\* counters add up to the number of files, whatever the interleaving and
\* whichever documents failed; the final log line reports these values.
C1_AllJobsCounted ==
    /\ (PoolJoined /\ NumWorkers >= 1) =>
           totalProcessed + totalErrors = Len(files)
    /\ (pc = "done" /\ NumWorkers >= 1) =>
           summary[1].processed + summary[1].errors = Len(files)

C1_Witness ==
    /\ pc = "done"
    /\ NumWorkers = 2
    /\ Len(files) = 2
    /\ totalProcessed = 1
    /\ totalErrors = 1
    /\ claimedBy[1] # claimedBy[2]

\* ---------------------------------------------------------------- C2
\* C2: no handle is received twice or by two workers, no two workers hold the
\* same handle, never more than NumWorkers workers hold a handle, and once the
\* pool has joined (NumWorkers >= 1) every handle was received exactly once.
C2_ClaimedExactlyOnce ==
    /\ \A h \in Handles : Len(claimedBy[h]) <= 1
    /\ \A v, w \in Workers : (v # w /\ wjob[v] # 0) => wjob[v] # wjob[w]
    /\ Cardinality(Active) <= (IF NumWorkers > 0 THEN NumWorkers ELSE 0)
    /\ (PoolJoined /\ NumWorkers >= 1) =>
           \A h \in Handles : Len(claimedBy[h]) = 1

C2_Witness ==
    /\ NumWorkers = 2
    /\ wpc = <<"send", "read">>
    /\ wjob = <<2, 1>>
    /\ claimedBy = <<(<<2>>), (<<1>>)>>

\* ---------------------------------------------------------------- C3
\* C3: a handle whose readPdf failed is counted once in totalErrors (the count
\* is exact as soon as the worker has passed the increment), never has a record
\* deposited, is never received again, and stops nothing: a worker exits only
\* when jobs is closed and empty, and once the pool has joined every handle was
\* attempted and the sink gets exactly the records of the successful ones.
C3_FailureIsolated ==
    /\ totalErrors = Cardinality(Failed)
                       - Cardinality({w \in Workers : wpc[w] = "adderr"})
    /\ \A h \in Failed : h \notin Range(deposited) /\ Len(claimedBy[h]) = 1
    /\ \A w \in Workers : wpc[w] = "exited" => (jobsClosed /\ jobs = <<>>)
    /\ (PoolJoined /\ NumWorkers >= 1) =>
           /\ totalErrors = Cardinality(Failed)
           /\ \A h \in Handles : content[h] # Unread
    /\ (sinkArgs # <<>> /\ NumWorkers >= 1) =>
           Len(sinkArgs[1]) = Len(files) - Cardinality(Failed)

C3_Witness ==
    /\ pc = "done"
    /\ Len(files) = 2
    /\ content[1] = ReadError
    /\ content[2] = ReadText(TextA)
    /\ claimedBy[1] = claimedBy[2]
    /\ totalErrors = 1
    /\ sinkArgs = << <<parseInvoice(TextA, ValidConfig)>> >>

\* ---------------------------------------------------------------- C4
\* C4: every successful extraction has exactly one record: after the join the
\* records in the result channel and in main's slice are as many as the
\* successful handles and as totalProcessed, the sink receives that many, and a
\* text in which nothing matches is there as the all-empty record.
C4_RecordPerSuccess ==
    /\ Len(deposited) <= Cardinality(Succeeded)
    /\ Cardinality(Range(deposited)) = Len(deposited)
    /\ (PoolJoined /\ NumWorkers >= 1) =>
           /\ Len(results) + Len(invoices) = Cardinality(Succeeded)
           /\ Len(results) + Len(invoices) = totalProcessed
           /\ Cardinality({k \in 1..Len(results) : results[k] = EmptyInvoice})
                + Cardinality({k \in 1..Len(invoices) : invoices[k] = EmptyInvoice})
              = Cardinality({h \in Handles : content[h] = ReadText(TextNoMatch)})
    /\ (sinkArgs # <<>> /\ NumWorkers >= 1) =>
           /\ Len(sinkArgs[1]) = Cardinality(Succeeded)
           /\ Len(sinkArgs[1]) = totalProcessed

C4_Witness ==
    /\ pc = "done"
    /\ Len(files) = 2
    /\ content[1] = ReadText(TextNoMatch)
    /\ content[2] = ReadText(TextNoMatch)
    /\ totalProcessed = 2
    /\ sinkArgs = << <<EmptyInvoice, EmptyInvoice>> >>
    /\ Len(csvRows) = 3

RECURSIVE InFileOrder(_)
InFileOrder(h) ==
    IF h > Len(files) THEN <<>>
    ELSE (IF content[h].kind = "text"
          THEN <<parseInvoice(content[h].text, regexCfg)>>
          ELSE <<>>) \o InFileOrder(h + 1)

\* What a run with one worker hands to the sink for the same documents: the
\* single worker receives the files in order and deposits in that order.
SingleWorkerOutput == SortSlice(InFileOrder(1))

\* With NumWorkers = 1 the output is SingleWorkerOutput.
SingleWorkerIsReference ==
    (sinkArgs # <<>> /\ NumWorkers = 1) => sinkArgs[1] = SingleWorkerOutput

\* C6: for the same documents and template, a run with any number of workers
\* (at least one) and any interleaving hands the sink the sequence that the run
\* with one worker hands it.
C6_SameOutputForAnyWorkerCount ==
    (sinkArgs # <<>> /\ NumWorkers >= 1) => sinkArgs[1] = SingleWorkerOutput

\* ---------------------------------------------------------------- C7
Reorderings(n) ==
    {f \in [1..n -> 1..n] : \A a, b \in 1..n : f[a] = f[b] => a = b}

Permuted(q, f) == [k \in 1..Len(q) |-> q[f[k]]]

\* C7: sorting any permutation of the collected slice gives the same output
\* sequence.
C7_SortIgnoresInputOrder ==
    hPc = "done" =>
        \A f \in Reorderings(Len(hIn)) : SortSlice(Permuted(hIn, f)) = hOut

\* ---------------------------------------------------------------- C8
\* The rule of the claim, stated on positions of the Fatura string.
SlashAt(s) == {k \in 1..Len(s) : s[k] = "/"}

\* The text between the first "/" and the next one (or the end).
SecondSegment(s) ==
    LET a == CHOOSE k \in SlashAt(s) : \A m \in SlashAt(s) : k <= m
        later == {k \in SlashAt(s) : k > a}
        b == IF later = {} THEN Len(s) + 1
             ELSE CHOOSE k \in later : \A m \in later : k <= m
    IN  SubSeq(s, a + 1, b - 1)

Unspaced(s) ==
    LET ink == {k \in 1..Len(s) : s[k] # " "}
    IN  IF ink = {} THEN <<>>
        ELSE SubSeq(s, CHOOSE k \in ink : \A m \in ink : k <= m,
                       CHOOSE k \in ink : \A m \in ink : k >= m)

Unsigned(s) == IF s # <<>> /\ s[1] \in {"+", "-"} THEN SubSeq(s, 2, Len(s)) ELSE s

IsInteger(s) ==
    /\ Unsigned(s) # <<>>
    /\ \A k \in 1..Len(Unsigned(s)) :
           Unsigned(s)[k] \in {"0", "1", "2", "3", "4", "5", "6", "7", "8", "9"}

RECURSIVE Power10(_)
Power10(n) == IF n = 0 THEN 1 ELSE 10 * Power10(n - 1)

RECURSIVE Magnitude(_, _)
Magnitude(s, k) ==
    IF k > Len(s) THEN 0
    ELSE (Ord(s[k]) - Ord("0")) * Power10(Len(s) - k) + Magnitude(s, k + 1)

IntegerOf(s) ==
    IF s[1] = "-" THEN 0 - Magnitude(Unsigned(s), 1) ELSE Magnitude(Unsigned(s), 1)

HasNumber(fatura) ==
    SlashAt(fatura) # {} /\ IsInteger(Unspaced(SecondSegment(fatura)))

NumberOf(fatura) == IntegerOf(Unspaced(SecondSegment(fatura)))

ClaimedBefore(a, b) ==
    IF HasNumber(a.Fatura) /\ HasNumber(b.Fatura)
    THEN NumberOf(a.Fatura) < NumberOf(b.Fatura)
    ELSE StrLess(a.Fatura, b.Fatura)

C9_InvalidPatternFatalAtLoad ==
    /\ MustCompilePanics(regexCfg) => \A h \in Handles : claimedBy[h] = <<>>
    /\ pc # "panic"

\* ---------------------------------------------------------------- C10
\* C10: records are written while documents are still being processed, so the
\* complete record set of a run (two or more records) is never held in memory
\* with nothing written yet.
C10_StreamedOutput ==
    ~ /\ csvRows = <<>>
      /\ Workers # {}
      /\ AllWorkersExited
      /\ Len(results) + Len(invoices) >= 2

\* ---------------------------------------------------------------- C11
\* What a rule captured: its first capture group, when it matched with one.
Captured(match) == match # <<>> /\ Len(match) >= 2

ClientMatch == FindStringSubmatch(regexCfg.ClienteMatricula, hIn)

RegistrationMatch == hIn.matricula

\* C11: ClienteMatricula is "<client>/<registration>" when both the client
\* pattern and the fixed registration pattern captured, the client capture
\* alone or the registration capture alone when only that one captured, and
\* empty when neither did.
C11_ClientRefCases ==
    hPc = "parsed" =>
        /\ (Captured(ClientMatch) /\ Captured(RegistrationMatch)) =>
               hOut.ClienteMatricula
                 = ClientMatch[2] \o <<"/">> \o RegistrationMatch[2]
        /\ (Captured(ClientMatch) /\ ~Captured(RegistrationMatch)) =>
               hOut.ClienteMatricula = ClientMatch[2]
        /\ (~Captured(ClientMatch) /\ Captured(RegistrationMatch)) =>
               hOut.ClienteMatricula = RegistrationMatch[2]
        /\ (~Captured(ClientMatch) /\ ~Captured(RegistrationMatch)) =>
               hOut.ClienteMatricula = <<>>

C11_Witness ==
    /\ hPc = "parsed"
    /\ ~Captured(ClientMatch)
    /\ Captured(RegistrationMatch)
    /\ hOut.ClienteMatricula = <<"A", "A", "-", "0", "0", "-", "B", "B">>

\* ---------------------------------------------------------------- C12
DateMatch == FindStringSubmatch(regexCfg.DataInicio, hIn)

\* The three date components all took part in the match.
AllThreeCaptured(match) ==
    /\ Len(match) >= 4
    /\ \A g \in 2..4 : match[g] # <<>>

\* C12: DataInicio is "<group3>-<group2>-<group1>" when the pattern matched
\* and all three components were captured, ("26","10","2023") giving
\* "2023-10-26", and is empty in every other case: no match, fewer than three
\* capture groups, or a component that did not take part in the match.
C12_StartDate ==
    hPc = "parsed" =>
        /\ AllThreeCaptured(DateMatch) =>
               hOut.DataInicio
                 = DateMatch[4] \o <<"-">> \o DateMatch[3] \o <<"-">>
                     \o DateMatch[2]
        /\ (DateMatch = <<W, <<"2", "6">>, <<"1", "0">>, <<"2", "0", "2", "3">> >>)
               => hOut.DataInicio
                    = <<"2", "0", "2", "3", "-", "1", "0", "-", "2", "6">>
        /\ ~AllThreeCaptured(DateMatch) => hOut.DataInicio = <<>>

\* ---------------------------------------------------------------- C13
AmountMatch == FindStringSubmatch(regexCfg.Valor, hIn)

RECURSIVE OtherThanDots(_)
OtherThanDots(s) ==
    IF s = <<>> THEN <<>>
    ELSE IF Head(s) = "." THEN OtherThanDots(Tail(s))
    ELSE <<Head(s)>> \o OtherThanDots(Tail(s))

Ties(a, b) == ~less(a, b) /\ ~less(b, a)

\* The records a and b of a sequence, in the order they stand in it.
OrderOf(data, a, b) == SelectSeq(data, LAMBDA c : c \in {a, b})

\* C14: the sort is stable: two collected records that compare as equal (the
\* same Fatura with different other fields) stand in the output in the
\* relative order in which they were collected.
C14_SortStable ==
    hPc = "done" =>
        \A a, b \in Range(hIn) :
            (a # b /\ Ties(a, b)) => OrderOf(hOut, a, b) = OrderOf(hIn, a, b)

\* ---------------------------------------------------------------- C15
\* Workers inside a readPdf that never returns, and the handles they hold.
Hung == {w \in Workers : wpc[w] = "hung"}

HangHandles == {h \in Handles : content[h] = ReadHang}

SomeHang == HangHandles # {}

\* Every handle whose extraction returns has been claimed and attempted, and
\* its record or its error has been counted.
OthersCounted ==
    /\ \A h \in Handles \ HangHandles :
           claimedBy[h] # <<>> /\ content[h] # Unread
    /\ totalProcessed = Cardinality(Succeeded)
    /\ totalErrors = Cardinality(Failed)
    /\ Len(deposited) = Cardinality(Succeeded)

\* The process ended before the pipeline: the template could not be loaded, or
\* a worker panicked on an invalid pattern.
Aborted == pc \in {"fatal_config", "panic"}

\* C15: an extraction that never returns blocks exactly one worker (the one
\* that claimed the handle); while fewer workers are blocked than were
\* started, every other handle is still eventually claimed and attempted by
\* the remaining workers and its record or error is counted.
C15_HangStallsOneWorker ==
    /\ [](/\ Cardinality(Hung) = Cardinality(HangHandles)
          /\ \A h \in HangHandles :
                 \E w \in Hung : wjob[w] = h /\ claimedBy[h] = <<w>>)
    /\ (Hung # {} /\ Cardinality(Hung) < NumWorkers)
           ~> (Aborted \/ Cardinality(Hung) >= NumWorkers \/ OthersCounted)

C15_Witness ==
    /\ NumWorkers = 2
    /\ Len(files) = 2
    /\ \E w \in Hung, h \in Handles :
           /\ Hung = {w}
           /\ content[h].kind = "text"
           /\ w \notin Range(claimedBy[h])
    /\ OthersCounted
    /\ totalProcessed = 1

\* ---------------------------------------------------------------- C16
\* main is not blocked on jobs <- file, and no worker on results <- invoice.
NoSendBlocks ==
    /\ (pc = "enqueue" /\ sent < Len(files)) => Len(jobs) < JobsCap
    /\ \A w \in Workers :
           wpc[w] = "send" => Len(results) < ResultsCap /\ ~resultsClosed

\* The sink has been called once and every worker has returned.
SinkCalledAfterExit ==
    /\ Len(sinkArgs) = 1
    /\ AllWorkersExited
    /\ Len(wpc) = NumWorkers
    /\ jobs = <<>>

\* C16: with at least one worker, valid patterns and extractions that all
\* return, the pipeline terminates: main never blocks enqueuing, no worker
\* blocks depositing a record, every worker exits once jobs is closed and
\* empty, and the sink is eventually called.
C16_PipelineTerminates ==
    /\ []NoSendBlocks
    /\ (pc = "spawn" /\ NumWorkers >= 1 /\ ~MustCompilePanics(regexCfg))
           ~> (SomeHang \/ SinkCalledAfterExit)

C16_Witness ==
    /\ pc = "done"
    /\ NumWorkers = 2
    /\ Len(files) = 2
    /\ ~SomeHang
    /\ SinkCalledAfterExit
    /\ totalProcessed + totalErrors = 2

\* ---------------------------------------------------------------- C17
Claimed == {h \in Handles : claimedBy[h] # <<>>}

\* Workers between depositing a record and counting it, and between a failed
\* extraction and counting it.
AboutToCount == {w \in Workers : wpc[w] = "addproc"}

AboutToCountError == {w \in Workers : wpc[w] = "adderr"}

CountersBounded ==
    /\ totalProcessed <= Len(deposited)
    /\ Len(deposited) <= Cardinality(Succeeded)
    /\ totalProcessed + totalErrors <= Cardinality(Claimed)
    /\ Cardinality(Claimed) <= Len(files)
    /\ totalProcessed = Len(deposited) - Cardinality(AboutToCount)
    /\ totalErrors = Cardinality(Failed) - Cardinality(AboutToCountError)

CountersGrow ==
    /\ totalProcessed' >= totalProcessed
    /\ totalErrors' >= totalErrors
    /\ totalProcessed' > totalProcessed =>
           \E w \in AboutToCount : wjob[w] \in Range(deposited)

\* C17: the counters never decrease; processed <= records deposited <= handles
\* claimed whose extraction succeeded, and processed + errors <= handles
\* claimed <= number of files; a record is deposited before its increment of
\* processed, and no increment is lost: each counter is short of its events
\* by exactly the workers that have not yet counted theirs.
C17_CountersConsistent == []CountersBounded /\ [][CountersGrow]_vars

C17_Witness ==
    /\ totalProcessed = 1
    /\ totalErrors = 0
    /\ Len(deposited) = 1
    /\ AboutToCountError # {}
    /\ Cardinality(Claimed) = 2

\* ---------------------------------------------------------------- C18
\* C18: less is a strict weak ordering over the Faturas: irreflexive,
\* asymmetric and transitive (no a < b, b < c, c < a), also across Faturas
\* with a numeric segment after the "/" and Faturas without one.
C18_StrictWeakOrdering ==
    hPc = "done" =>
        \A a, b, c \in Range(hIn) :
            /\ ~less(a, a)
            /\ less(a, b) => ~less(b, a)
            /\ (less(a, b) /\ less(b, c)) => (less(a, c) /\ ~less(c, a))

\* ---------------------------------------------------------------- C19
NoWorkers == NumWorkers <= 0 /\ Len(files) > 0

\* C19: with a worker count of 0 or less and at least one file, no worker is
\* started and no handle is claimed, yet main is never blocked and nothing
\* panics: wg.Wait returns at once, the sink receives an empty sequence and the
\* statistics are 0 and 0, short of the number of files.
C19_ZeroWorkersEmptyRun ==
    NoWorkers =>
        /\ wpc = <<>>
        /\ Claimed = {}
        /\ pc # "panic"
        /\ pc \notin {"done", "fatal_config", "fatal_write"} => ENABLED Main
        /\ pc = "wait" => WaitReturns
        /\ \A k \in 1..Len(sinkArgs) : sinkArgs[k] = <<>>
        /\ \A k \in 1..Len(summary) :
               /\ summary[k] = [processed |-> 0, errors |-> 0]
               /\ summary[k].processed + summary[k].errors # Len(files)

C19_Witness ==
    /\ NoWorkers
    /\ pc = "done"
    /\ Len(files) = 2
    /\ Len(jobs) = 2
    /\ sinkArgs = << <<>> >>
    /\ csvRows = <<Header>>
    /\ summary = <<[processed |-> 0, errors |-> 0]>>

\* ---------------------------------------------------------------- C20
SinkCalled == sinkArgs # <<>> \/ csvRows # <<>>

====
